---------------------------- MODULE Spec2Model ----------------------------
(***************************************************************************)
(* Model of src/server/start_service.py.                                   *)
(*                                                                         *)
(* Two state machines share the module:                                    *)
(*   - the connection scheduler, connect_to_peers / introducer_client of   *)
(*     create_periodic_introducer_poll_task (specification Spec, and       *)
(*     FairSpec for fair scheduling over unbounded time);                  *)
(*   - the lifecycle supervisor, class Service (specification SpecService  *)
(*     and its fair version FairSpecService).                              *)
(* A step of a task is the code between two awaits: other tasks of the     *)
(* event loop interleave only at an await.                                 *)
(***************************************************************************)
EXTENDS Integers, Sequences, FiniteSets

(***************************************************************************)
(* Bounds of the model.                                                    *)
(***************************************************************************)
MaxAddr == 2          \* peer addresses are 1..MaxAddr
MaxTarget == 1        \* target_outbound_count is drawn from 0..MaxTarget
MaxClock == 1         \* the clock (seconds since the start) saturates here
MaxBook == 1          \* the address book holds 0..MaxBook addresses
MaxPeers == 1         \* connect_peers holds 0..MaxPeers peers
MaxPorts == 2         \* server_listen_ports holds 0..MaxPorts ports
MaxStopCalls == 2     \* calls of stop() in one behaviour
MaxWaitCalls == 2     \* calls of wait_closed() in one behaviour
MaxStartCalls == 2    \* calls of start() in one behaviour

(***************************************************************************)
(* Constants of the program.                                               *)
(***************************************************************************)
PollInterval == 5         \* asyncio.sleep(5)
FeelerInterval == 120     \* avg_interval_seconds passed to poisson_next_send
MicroSeconds == 1000000   \* time.time() * 1000 * 1000
BackoffSeconds == 600     \* now - info.last_try < 600
BackoffTries == 30        \* tries < 30
MaxTries == 100           \* tries > 100

\* An optional value is a set of at most one element.
None == {}                \* Python None
Unbound == {}             \* a local variable that was never assigned
Some(x) == {x}
The(s) == CHOOSE x \in s : TRUE

Addrs == 1..MaxAddr
\* PeerInfo.get_group(): the network group of an address (/16 for IPv4);
\* consecutive addresses alternate between two groups.
get_group(a) == a % 2

\* Ages (seconds) of the last attempt of the candidates the address manager
\* hands out, relative to the iteration's `now'.
Ages == {10, 600}
\* Stand-ins for -log(1 - r / 2^48) * 1000000, r = random.randrange(1 << 48).
PoissonDraws == {0, 8334}

VARIABLES
  \* ---- environment of the scheduler
  clock,        \* time.time(), in seconds
  target,       \* global_connections.target_outbound_count
  size,         \* global_connections.size(): addresses in the address book
  outbound,     \* addresses of the registry's outbound connections
  intro_link,   \* the connection to the introducer: "none", "pending" (its
                \* handshake has not reached the registry), "open" (the
                \* registry holds a connection of type INTRODUCER)
  \* ---- locals of connect_to_peers
  pc, next_feeler, groups, is_feeler, tries, now, got_peer, info, addr,
  \* ---- observations of the current iteration
  calls,        \* address manager calls made in this iteration
  round,        \* what the latest round of the selection loop called
  rejected,     \* candidates sent back by the backoff rule (line 139)
  exit,         \* how the selection loop ended
  dialed,       \* the start_client task created at line 146, or None
  intro,        \* what introducer_client did in this iteration, or None
  slept,        \* the previous iteration slept before the loop went on
  \* ---- Service
  cfg,             \* the arguments of Service.__init__
  attrs,           \* the attributes that _run has assigned so far
  runPc,           \* where the task self._task (_run) stands
  is_stopping,     \* self._is_stopping
  server_sockets,  \* self._server_sockets
  bound,           \* the list that line 265 is building
  sockIdx,         \* the socket that line 277 waits for
  listening,       \* the sockets that are bound and not closed
  poll_task,       \* self._introducer_poll_task
  rpc_task,        \* self._rpc_task
  reconnect_tasks, \* self._reconnect_tasks
  serverClosed,    \* self._server.close_all() was called
  shut_down,       \* self._api._shut_down
  handlers,        \* the signal handlers are installed
  waitPc,          \* where the caller of wait_closed() stands
  waitCalls,       \* calls of wait_closed()
  startCalls,      \* calls of start()
  stopCalls,       \* calls of stop()
  stopBy,          \* who made the first call of stop()
  stopError,       \* the latest call of stop() raised an error
  closeOps,        \* close(), cancel() and close_all() calls made by stop()
  rpcCloses        \* invocations of the RPC server's close procedure

schedVars == <<clock, target, size, outbound, intro_link, pc, next_feeler,
               groups, is_feeler, tries, now, got_peer, info, addr, calls,
               round, rejected, exit, dialed, intro, slept>>
svcVars == <<cfg, attrs, runPc, is_stopping, server_sockets, bound,
             sockIdx, listening, poll_task, rpc_task, reconnect_tasks,
             serverClosed, shut_down, handlers, waitPc, waitCalls, startCalls,
             stopCalls, stopBy, stopError, closeOps, rpcCloses>>
vars == <<schedVars, svcVars>>

Min(a, b) == IF a <= b THEN a ELSE b

--------------------------------------------------------------------------
(***************************************************************************)
(* The connection scheduler: create_periodic_introducer_poll_task.         *)
(***************************************************************************)

\* poisson_next_send(now, avg_interval_seconds): now + (log(...) * avg *
\* -1000000.0 + 0.5); the log term is <= 0, so the delay is positive; the
\* half microsecond is rounded up to one.
poisson_next_send(t, avg_interval_seconds, draw) ==
  t + (draw * avg_interval_seconds + 1)

\* _num_needed_peers()
_num_needed_peers ==
  LET diff == target - Cardinality(outbound)
  IN  IF diff >= 0 THEN diff ELSE 0

\* The ExtendedPeerInfo records the address manager can hand out to an
\* iteration whose `now' is t: none when the address book is empty.
Infos(t) ==
  IF size = 0 THEN {None}
  ELSE {None} \cup {Some(i) : i \in [peer_info : Addrs,
                                      last_try : {t - a : a \in Ages}]}

NoCalls == [resolve |-> 0, collision |-> 0, select |-> 0]

\* No round of the selection loop has run in this iteration.
NoRound == [collision |-> FALSE, select |-> FALSE]

\* asyncio.sleep(5): the clock saturates at MaxClock.
AfterSleep == Min(clock + PollInterval, MaxClock)

\* The locals that every iteration assigns before it reads them, and the
\* observations of the iteration, as they are at the head of the loop.
FreshIteration ==
  /\ groups' = {}
  /\ is_feeler' = FALSE
  /\ tries' = 0
  /\ now' = 0
  /\ got_peer' = FALSE
  /\ info' = None
  /\ calls' = NoCalls
  /\ round' = NoRound
  /\ rejected' = 0
  /\ exit' = "none"
  /\ dialed' = None
  /\ intro' = None

SchedInit ==
  /\ clock = 0
  /\ target \in 0..MaxTarget
  /\ size = 0
  /\ outbound = {}
  /\ intro_link = "none"
  /\ pc = "init"
  /\ next_feeler = 0
  /\ groups = {}
  /\ is_feeler = FALSE
  /\ tries = 0
  /\ now = 0
  /\ got_peer = FALSE
  /\ info = None
  /\ addr = Unbound
  /\ calls = NoCalls
  /\ round = NoRound
  /\ rejected = 0
  /\ exit = "none"
  /\ dialed = None
  /\ intro = None
  /\ slept = TRUE

\* ---- line 73
Begin ==
  /\ UNCHANGED svcVars
  /\ pc = "init"
  /\ \E draw \in PoissonDraws :
       next_feeler' =
         poisson_next_send(clock * MicroSeconds, FeelerInterval, draw)
  /\ pc' = "top"
  /\ UNCHANGED <<clock, target, size, outbound, intro_link, groups,
                 is_feeler, tries, now, got_peer, info, addr, calls, round,
                 rejected, exit, dialed, intro, slept>>

\* introducer_client, lines 65-68: close every connection of type
\* INTRODUCER; `open': the registry holds one when the loop runs; `pending':
\* a handshake with the introducer has not reached the registry yet.
CloseIntroducers(open, pending) ==
  /\ intro_link' = IF pending THEN "pending" ELSE "none"
  /\ intro' = Some([needed |-> IF intro = None THEN _num_needed_peers
                               ELSE The(intro).needed,
                    dialed |-> intro # None,
                    closed |-> IF open THEN 1 ELSE 0])
  /\ pc' = "intro_sleep"

\* A variant of line 62 that dials whether or not peers are needed.
IntroducerWantedAlways == _num_needed_peers >= 0

\* introducer_client, line 62: `if _num_needed_peers():'
IntroducerWanted == _num_needed_peers > 0

\* ---- lines 76-78 and 62-63: the address book is empty and peers are
\* needed: introducer_client awaits server.start_client(peer_info, on_connect).
IntroducerDial ==
  /\ UNCHANGED svcVars
  /\ pc = "top"
  /\ size = 0
  /\ IntroducerWanted
  /\ intro' = Some([needed |-> _num_needed_peers, dialed |-> TRUE,
                    closed |-> 0])
  /\ pc' = "intro_dial"
  /\ slept' = TRUE
  /\ UNCHANGED <<clock, target, size, outbound, intro_link, next_feeler,
                 groups, is_feeler, tries, now, got_peer, info, addr, calls,
                 round, rejected, exit, dialed>>

\* ---- lines 76-78, 62, 65-68: the address book is empty and no peer is
\* needed: no dial, the close loop runs at once.
IntroducerNoDial ==
  /\ UNCHANGED svcVars
  /\ pc = "top"
  /\ size = 0
  /\ ~IntroducerWanted
  /\ CloseIntroducers(intro_link = "open", intro_link = "pending")
  /\ slept' = TRUE
  /\ UNCHANGED <<clock, target, size, outbound, next_feeler, groups,
                 is_feeler, tries, now, got_peer, info, addr, calls, round,
                 rejected, exit, dialed>>

\* ---- lines 63-68: start_client returns; the connection failed, or is in
\* the registry already, or reaches it later (its handshake is pending);
\* then the close loop runs.
IntroducerDialDone ==
  /\ UNCHANGED svcVars
  /\ pc = "intro_dial"
  /\ \E result \in {"failed", "open", "pending"} :
       CloseIntroducers(intro_link = "open" \/ result = "open",
                        intro_link = "pending" \/ result = "pending")
  /\ UNCHANGED <<clock, target, size, outbound, next_feeler, groups,
                 is_feeler, tries, now, got_peer, info, addr, calls, round,
                 rejected, exit, dialed, slept>>

\* A variant of lines 70-79 without the `continue': after the sleep the
\* iteration goes on to lines 82-114.
IntroducerSleepFallsThrough ==
  /\ UNCHANGED svcVars
  /\ pc = "intro_sleep"
  /\ clock' = AfterSleep
  /\ groups' = {get_group(a) : a \in outbound}
  /\ is_feeler' = FALSE
  /\ calls' = [NoCalls EXCEPT !.resolve = 1]
  /\ round' = NoRound
  /\ tries' = 0
  /\ now' = AfterSleep
  /\ got_peer' = FALSE
  /\ pc' = "select"
  /\ UNCHANGED <<target, size, outbound, intro_link, next_feeler, addr,
                 info, rejected, exit, dialed, intro, slept>>

\* ---- lines 70 and 79: asyncio.sleep(5), then `continue'.
IntroducerSleep ==
  /\ UNCHANGED svcVars
  /\ pc = "intro_sleep"
  /\ clock' = AfterSleep
  /\ pc' = "top"
  /\ slept' = TRUE
  /\ FreshIteration
  /\ UNCHANGED <<target, size, outbound, intro_link, next_feeler, addr>>

\* ---- lines 82-87 and 110-114: the groups of the outbound connections, then
\* resolve_tried_collisions() and the locals of the selection loop.
BeginSelection(feeler) ==
  /\ groups' = {get_group(peer) : peer \in outbound}
  /\ is_feeler' = feeler
  /\ calls' = [NoCalls EXCEPT !.resolve = 1]
  /\ round' = NoRound
  /\ tries' = 0
  /\ now' = clock
  /\ got_peer' = FALSE
  /\ pc' = "select"
  /\ slept' = TRUE

\* A variant of line 104 that takes every deadline as passed.
FeelerDueAlways == TRUE

\* line 104: `time.time() * 1000 * 1000 > next_feeler'
FeelerDue == clock * MicroSeconds > next_feeler

\* ---- lines 76-108, needed > 0 and the feeler deadline has not passed:
\* `continue', without a sleep.
IterationSkipped ==
  /\ UNCHANGED svcVars
  /\ pc = "top"
  /\ size # 0
  /\ _num_needed_peers > 0
  /\ ~FeelerDue
  /\ slept' = FALSE
  /\ UNCHANGED <<clock, target, size, outbound, intro_link, pc, next_feeler,
                 groups, is_feeler, tries, now, got_peer, info, addr, calls,
                 round, rejected, exit, dialed, intro>>

\* ---- lines 76-114, needed > 0 and the feeler deadline has passed.
IterationFeeler ==
  /\ UNCHANGED svcVars
  /\ pc = "top"
  /\ size # 0
  /\ _num_needed_peers > 0
  /\ FeelerDue
  /\ \E draw \in PoissonDraws :
       next_feeler' =
         poisson_next_send(clock * MicroSeconds, FeelerInterval, draw)
  /\ BeginSelection(TRUE)
  /\ UNCHANGED <<clock, target, size, outbound, intro_link, info, addr,
                 rejected, exit, dialed, intro>>

\* A variant of lines 103-108 that lets an iteration through as a non-feeler
\* whatever the number of needed peers.
IterationPlainWhateverNeeded ==
  /\ UNCHANGED svcVars
  /\ pc = "top"
  /\ size # 0
  /\ BeginSelection(FALSE)
  /\ UNCHANGED <<clock, target, size, outbound, intro_link, next_feeler,
                 info, addr, rejected, exit, dialed, intro>>

\* ---- lines 76-114, needed == 0.
IterationPlain ==
  /\ UNCHANGED svcVars
  /\ pc = "top"
  /\ size # 0
  /\ _num_needed_peers = 0
  /\ BeginSelection(FALSE)
  /\ UNCHANGED <<clock, target, size, outbound, intro_link, next_feeler,
                 info, addr, rejected, exit, dialed, intro>>

\* A variant of lines 117-120 that calls select_peer() in every round.
CallsSelectPeerAlways(coll) == TRUE

\* lines 117-120: `if not is_feeler or info is None:', with coll what
\* select_tried_collision() returned.
CallsSelectPeer(coll) == (~is_feeler) \/ coll = None

\* lines 116-121: the candidate of one round of the selection loop, from what
\* select_tried_collision() (coll) and select_peer() (sel) return.
Candidate(coll, sel) ==
  IF CallsSelectPeer(coll) THEN sel ELSE coll

\* lines 126-129: the network-group filter.
GroupTaken(a) == (~is_feeler) /\ get_group(a) \in groups

\* A variant of lines 135-138 without `tries < 30'.
BackedOffWithoutLimit(last_try, t) ==
  now - last_try < BackoffSeconds

\* lines 135-138: the backoff rule, for the candidate counted as number t.
BackedOff(last_try, t) ==
  now - last_try < BackoffSeconds /\ t < BackoffTries

\* lines 142-144
DisconnectAfterHandshake ==
  IF _num_needed_peers > 0 THEN TRUE ELSE is_feeler

\* lines 142-147: what follows the selection loop, with `a' the value of the
\* local addr. Reading an addr that no iteration has assigned raises
\* UnboundLocalError, which ends the task; an assigned addr is never None.
AfterLoop(a) ==
  IF a = Unbound
    THEN /\ pc' = "error"
         /\ dialed' = None
    ELSE /\ pc' = "sleep"
         /\ dialed' = Some([addr |-> The(a),
                            flag |-> DisconnectAfterHandshake,
                            needed |-> _num_needed_peers])

\* ---- lines 115-147: one round of the selection loop and, when the loop
\* ends, the dial.
SelectCandidate ==
  /\ UNCHANGED svcVars
  /\ pc = "select"
  /\ \E coll \in Infos(now) :
     \E sel \in IF CallsSelectPeer(coll) THEN Infos(now) ELSE {None} :
       LET c == Candidate(coll, sel)
           usedSelect == CallsSelectPeer(coll)
       IN  /\ calls' = [calls EXCEPT !.collision = 1,
                                     !.select = IF usedSelect THEN 1 ELSE @]
           /\ round' = [collision |-> coll # None, select |-> usedSelect]
           /\ info' = c
           /\ IF c = None
                THEN \* line 123
                     /\ exit' = "no_peer"
                     /\ UNCHANGED <<addr, tries, got_peer, rejected>>
                     /\ AfterLoop(addr)
                ELSE /\ addr' = Some(The(c).peer_info)
                     /\ IF GroupTaken(The(c).peer_info)
                          THEN \* line 130
                               /\ exit' = "group"
                               /\ UNCHANGED <<tries, got_peer, rejected>>
                               /\ AfterLoop(Some(The(c).peer_info))
                          ELSE /\ tries' = tries + 1
                               /\ IF tries + 1 > MaxTries
                                    THEN \* line 133
                                         /\ exit' = "budget"
                                         /\ UNCHANGED <<got_peer, rejected>>
                                         /\ AfterLoop(Some(The(c).peer_info))
                                    ELSE IF BackedOff(The(c).last_try,
                                                      tries + 1)
                                    THEN \* line 139
                                         /\ rejected' = rejected + 1
                                         /\ UNCHANGED <<got_peer, exit, pc,
                                                        dialed>>
                                    ELSE \* line 140
                                         /\ got_peer' = TRUE
                                         /\ exit' = "accepted"
                                         /\ UNCHANGED rejected
                                         /\ AfterLoop(Some(The(c).peer_info))
  /\ UNCHANGED <<clock, target, size, outbound, intro_link, next_feeler,
                 groups, is_feeler, now, intro, slept>>

\* ---- line 147: asyncio.sleep(5), then the next iteration.
Sleep ==
  /\ UNCHANGED svcVars
  /\ pc = "sleep"
  /\ clock' = AfterSleep
  /\ pc' = "top"
  /\ slept' = TRUE
  /\ FreshIteration
  /\ UNCHANGED <<target, size, outbound, intro_link, next_feeler, addr>>

(***************************************************************************)
(* The environment of the scheduler.                                       *)
(***************************************************************************)
SchedEnvUnchanged ==
  UNCHANGED <<pc, next_feeler, groups, is_feeler, tries, now, got_peer, info,
              addr, calls, round, rejected, exit, dialed, intro, slept,
              target>>

\* Time passes.
Tick ==
  /\ UNCHANGED svcVars
  /\ clock < MaxClock
  /\ clock' = clock + 1
  /\ UNCHANGED <<size, outbound, intro_link>>
  /\ SchedEnvUnchanged

\* The address manager learns an address (a peer list arrives).
LearnPeer ==
  /\ UNCHANGED svcVars
  /\ size < MaxBook
  /\ size' = size + 1
  /\ UNCHANGED <<clock, outbound, intro_link>>
  /\ SchedEnvUnchanged

\* The address manager drops an address.
ForgetPeer ==
  /\ UNCHANGED svcVars
  /\ size > 0
  /\ size' = size - 1
  /\ UNCHANGED <<clock, outbound, intro_link>>
  /\ SchedEnvUnchanged

\* An outbound connection (of a dial, or of a reconnect task) reaches the
\* registry.
PeerConnected ==
  /\ UNCHANGED svcVars
  /\ \E a \in Addrs \ outbound : outbound' = outbound \cup {a}
  /\ UNCHANGED <<clock, size, intro_link>>
  /\ SchedEnvUnchanged

\* An outbound connection is closed.
PeerDisconnected ==
  /\ UNCHANGED svcVars
  /\ \E a \in outbound : outbound' = outbound \ {a}
  /\ UNCHANGED <<clock, size, intro_link>>
  /\ SchedEnvUnchanged

\* The handshake with the introducer completes: the connection, of type
\* INTRODUCER, is in the registry.
IntroducerRegistered ==
  /\ UNCHANGED svcVars
  /\ intro_link = "pending"
  /\ intro_link' = "open"
  /\ UNCHANGED <<clock, size, outbound>>
  /\ SchedEnvUnchanged

\* Service.__init__, lines 207-221, for the arguments c.
Constructed(c) ==
  /\ cfg = c
  /\ attrs = {}
  /\ runPc = "created"
  /\ is_stopping = FALSE
  /\ server_sockets = <<>>
  /\ bound = <<>>
  /\ sockIdx = 0
  /\ listening = {}
  /\ poll_task = "none"
  /\ rpc_task = "none"
  /\ reconnect_tasks = <<>>
  /\ serverClosed = FALSE
  /\ shut_down = FALSE
  /\ handlers = FALSE
  /\ waitPc = "idle"
  /\ waitCalls = 0
  /\ startCalls = 0
  /\ stopCalls = 0
  /\ stopBy = "nobody"
  /\ stopError = FALSE
  /\ closeOps = 0
  /\ rpcCloses = 0

\* The arguments of Service.__init__ that the lifecycle depends on.
Configs ==
  [start_callback : BOOLEAN,
   periodic_introducer_poll : BOOLEAN,
   rpc_info : BOOLEAN,
   connect_peers : 0..MaxPeers,
   server_listen_ports : 0..MaxPorts,
   await_closed_callback : BOOLEAN]

\* The Service while the scheduler is looked at alone.
SvcIdle ==
  Constructed([start_callback |-> FALSE, periodic_introducer_poll |-> TRUE,
               rpc_info |-> FALSE, connect_peers |-> 0,
               server_listen_ports |-> 0, await_closed_callback |-> FALSE])

Next ==
  \/ Begin
  \/ IntroducerDial
  \/ IntroducerNoDial
  \/ IntroducerDialDone
  \/ IntroducerSleep
  \/ IterationSkipped
  \/ IterationFeeler
  \/ IterationPlain
  \/ SelectCandidate
  \/ Sleep
  \/ Tick
  \/ LearnPeer
  \/ ForgetPeer
  \/ PeerConnected
  \/ PeerDisconnected
  \/ IntroducerRegistered

Init == SchedInit /\ SvcIdle
Spec == Init /\ [][Next]_vars

\* Time passes beyond the horizon of the clock too: the clock stays at
\* MaxClock, and a feeler deadline that lay ahead of it falls behind it.
HorizonTick ==
  /\ UNCHANGED svcVars
  /\ clock = MaxClock
  /\ next_feeler >= clock * MicroSeconds
  /\ next_feeler' = clock * MicroSeconds - 1
  /\ UNCHANGED <<clock, target, size, outbound, intro_link, pc, groups,
                 is_feeler, tries, now, got_peer, info, addr, calls, round,
                 rejected, exit, dialed, intro, slept>>

\* The scheduler over unbounded time.
NextLive ==
  \/ Begin
  \/ IntroducerDial
  \/ IntroducerNoDial
  \/ IntroducerDialDone
  \/ IntroducerSleep
  \/ IterationSkipped
  \/ IterationFeeler
  \/ IterationPlain
  \/ SelectCandidate
  \/ Sleep
  \/ Tick
  \/ HorizonTick
  \/ LearnPeer
  \/ ForgetPeer
  \/ PeerConnected
  \/ PeerDisconnected
  \/ IntroducerRegistered

\* The event loop runs connect_to_peers whenever it can take a step, every
\* call it awaits returns, and time passes. Nothing binds the peers, the
\* introducer or the address manager to change what they hold.
FairSched ==
  /\ WF_vars(Begin)
  /\ WF_vars(IntroducerDial)
  /\ WF_vars(IntroducerNoDial)
  /\ WF_vars(IntroducerDialDone)
  /\ WF_vars(IntroducerSleep)
  /\ WF_vars(IterationSkipped)
  /\ WF_vars(IterationFeeler)
  /\ WF_vars(IterationPlain)
  /\ WF_vars(SelectCandidate)
  /\ WF_vars(Sleep)
  /\ WF_vars(Tick)
  /\ WF_vars(HorizonTick)

FairSpec == Init /\ [][NextLive]_vars /\ FairSched

--------------------------------------------------------------------------
(***************************************************************************)
(* The lifecycle supervisor: class Service.                                *)
(***************************************************************************)

Range(q) == {q[i] : i \in 1..Len(q)}

\* A variant of lines 224-225 without the guard: every call creates a task.
TaskAlwaysCreated == TRUE

\* line 224, negated: `self._task is None'
TaskIsNone == runPc = "created"

\* ---- lines 223-226 and 285: start() creates the task of _run, unless
\* self._task holds one already.
Start ==
  /\ UNCHANGED schedVars
  /\ startCalls < MaxStartCalls
  /\ startCalls' = startCalls + 1
  /\ IF TaskIsNone THEN runPc' = "pending" ELSE UNCHANGED runPc
  /\ UNCHANGED <<cfg, attrs, is_stopping, server_sockets, bound, sockIdx,
                 listening, poll_task, rpc_task, reconnect_tasks,
                 serverClosed, shut_down, handlers, waitPc, waitCalls,
                 stopCalls, stopBy, stopError, closeOps, rpcCloses>>

\* lines 231-268, up to the first await: the tasks are created, and with no
\* port to listen on lines 265-277 complete at once.
Spawn ==
  /\ attrs' = {"_introducer_poll_task", "_rpc_task", "_reconnect_tasks"}
  /\ poll_task' = IF cfg.periodic_introducer_poll THEN "running" ELSE "none"
  /\ rpc_task' = IF cfg.rpc_info THEN "running" ELSE "none"
  /\ reconnect_tasks' = [i \in 1..cfg.connect_peers |-> "running"]
  /\ bound' = <<>>
  /\ IF cfg.server_listen_ports = 0
       THEN /\ server_sockets' = <<>>
            /\ handlers' = TRUE
            /\ runPc' = "await_server"
       ELSE /\ runPc' = "bind"
            /\ UNCHANGED <<server_sockets, handlers>>

\* ---- lines 228-229: the first step of _run.
RunBegin ==
  /\ UNCHANGED schedVars
  /\ runPc = "pending"
  /\ IF cfg.start_callback
       THEN /\ runPc' = "start_cb"
            /\ UNCHANGED <<attrs, poll_task, rpc_task, reconnect_tasks,
                           bound, server_sockets, handlers>>
       ELSE Spawn
  /\ UNCHANGED <<cfg, startCalls,
                 is_stopping, sockIdx, listening, serverClosed,
                 shut_down, waitPc, waitCalls, stopCalls, stopBy, stopError,
                 closeOps, rpcCloses>>

\* ---- line 229: the start callback returns.
StartCallbackDone ==
  /\ UNCHANGED schedVars
  /\ runPc = "start_cb"
  /\ Spawn
  /\ UNCHANGED <<cfg, startCalls,
                 is_stopping, sockIdx, listening, serverClosed,
                 shut_down, waitPc, waitCalls, stopCalls, stopBy, stopError,
                 closeOps, rpcCloses>>

\* ---- lines 265-272: one start_server returns its socket; after the last
\* one the list is assigned to self._server_sockets, the signal handlers are
\* installed and line 277 waits for the first socket.
BindDone ==
  /\ UNCHANGED schedVars
  /\ runPc = "bind"
  /\ LET k == Len(bound) + 1
     IN  /\ bound' = Append(bound, k)
         /\ listening' = listening \cup {k}
         /\ IF k = cfg.server_listen_ports
              THEN /\ server_sockets' = Append(bound, k)
                   /\ handlers' = TRUE
                   /\ sockIdx' = 1
                   /\ runPc' = "wait_sock"
              ELSE UNCHANGED <<server_sockets, handlers, sockIdx, runPc>>
  /\ UNCHANGED <<cfg, startCalls, attrs, is_stopping, poll_task, rpc_task,
                 reconnect_tasks, serverClosed, shut_down, waitPc, waitCalls,
                 stopCalls, stopBy, stopError, closeOps, rpcCloses>>

\* ---- lines 276-277: wait_closed() of a socket returns once it is closed.
SocketClosedSeen ==
  /\ UNCHANGED schedVars
  /\ runPc = "wait_sock"
  /\ server_sockets[sockIdx] \notin listening
  /\ IF sockIdx = Len(server_sockets)
       THEN runPc' = "await_server" /\ UNCHANGED sockIdx
       ELSE sockIdx' = sockIdx + 1 /\ UNCHANGED runPc
  /\ UNCHANGED <<cfg, startCalls,
                 attrs, is_stopping, server_sockets, bound, listening,
                 poll_task, rpc_task, reconnect_tasks, serverClosed,
                 shut_down, handlers, waitPc, waitCalls, stopCalls, stopBy,
                 stopError, closeOps, rpcCloses>>

\* A variant of lines 279-283 that does not await self._server.await_closed().
ServerClosedNotAwaited ==
  /\ UNCHANGED schedVars
  /\ runPc = "await_server"
  /\ runPc' = IF cfg.await_closed_callback THEN "closed_cb" ELSE "done"
  /\ UNCHANGED <<cfg, startCalls,
                 attrs, is_stopping, server_sockets, bound, sockIdx,
                 listening, poll_task, rpc_task, reconnect_tasks,
                 serverClosed, shut_down, handlers, waitPc, waitCalls,
                 stopCalls, stopBy, stopError, closeOps, rpcCloses>>

\* ---- lines 279-283: self._server.await_closed() returns once the server
\* is closed; the stop callback runs.
ServerClosedSeen ==
  /\ UNCHANGED schedVars
  /\ runPc = "await_server"
  /\ serverClosed
  /\ runPc' = IF cfg.await_closed_callback THEN "closed_cb" ELSE "done"
  /\ UNCHANGED <<cfg, startCalls,
                 attrs, is_stopping, server_sockets, bound, sockIdx,
                 listening, poll_task, rpc_task, reconnect_tasks,
                 serverClosed, shut_down, handlers, waitPc, waitCalls,
                 stopCalls, stopBy, stopError, closeOps, rpcCloses>>

\* ---- line 283: the await-closed callback returns; _run is finished.
AwaitClosedCallbackDone ==
  /\ UNCHANGED schedVars
  /\ runPc = "closed_cb"
  /\ runPc' = "done"
  /\ UNCHANGED <<cfg, startCalls,
                 attrs, is_stopping, server_sockets, bound, sockIdx,
                 listening, poll_task, rpc_task, reconnect_tasks,
                 serverClosed, shut_down, handlers, waitPc, waitCalls,
                 stopCalls, stopBy, stopError, closeOps, rpcCloses>>

\* Task.cancel(): a running task is asked to cancel itself.
Cancel(t) == IF t = "running" THEN "cancelling" ELSE t

\* A variant of line 294 without the guard.
StopGuardMissing == TRUE

\* line 294: `if not self._is_stopping:'
StopGuard == ~is_stopping

\* Who can call stop(): a direct caller, the stop callback handed to the RPC
\* server (line 255), a signal handler (lines 271-272).
CanStop(who) ==
  CASE who = "caller" -> TRUE
    [] who = "rpc" -> rpc_task # "none"
    [] who = "signal" -> handlers

\* ---- lines 293-303: stop(). Reading self._reconnect_tasks or
\* self._introducer_poll_task before _run has assigned it raises
\* AttributeError.
Stop(who) ==
  /\ UNCHANGED schedVars
  /\ runPc # "created"
  /\ stopCalls < MaxStopCalls
  /\ CanStop(who)
  /\ stopCalls' = stopCalls + 1
  /\ IF StopGuard
       THEN /\ is_stopping' = TRUE
            /\ stopBy' = IF stopBy = "nobody" THEN who ELSE stopBy
            /\ listening' = listening \ Range(server_sockets)
            /\ IF "_reconnect_tasks" \notin attrs
                 THEN /\ stopError' = TRUE
                      /\ closeOps' = closeOps + Len(server_sockets)
                      /\ UNCHANGED <<reconnect_tasks, serverClosed,
                                     shut_down, poll_task>>
                 ELSE /\ reconnect_tasks' =
                           [i \in 1..Len(reconnect_tasks) |->
                              Cancel(reconnect_tasks[i])]
                      /\ serverClosed' = TRUE
                      /\ shut_down' = TRUE
                      /\ stopError' = ("_introducer_poll_task" \notin attrs)
                      /\ poll_task' = Cancel(poll_task)
                      /\ closeOps' = closeOps + Len(server_sockets)
                                       + Len(reconnect_tasks) + 1
                                       + (IF poll_task # "none" THEN 1 ELSE 0)
       ELSE /\ stopError' = FALSE
            /\ UNCHANGED <<is_stopping, stopBy, listening, reconnect_tasks,
                           serverClosed, shut_down, poll_task, closeOps>>
  /\ UNCHANGED <<cfg, startCalls,
                 attrs, runPc, server_sockets, bound, sockIdx, rpc_task,
                 handlers, waitPc, waitCalls, rpcCloses>>

\* ---- the task of connect_to_peers (line 149) meets the CancelledError at
\* an await and ends.
PollTaskCancelled ==
  /\ UNCHANGED schedVars
  /\ poll_task = "cancelling"
  /\ poll_task' = "done"
  /\ UNCHANGED <<cfg, startCalls,
                 attrs, runPc, is_stopping, server_sockets, bound,
                 sockIdx, listening, rpc_task, reconnect_tasks, serverClosed,
                 shut_down, handlers, waitPc, waitCalls, stopCalls, stopBy,
                 stopError, closeOps, rpcCloses>>

\* ---- a reconnect task (line 260) meets the CancelledError and ends.
ReconnectTaskCancelled ==
  /\ UNCHANGED schedVars
  /\ \E i \in 1..Len(reconnect_tasks) :
       /\ reconnect_tasks[i] = "cancelling"
       /\ reconnect_tasks' = [reconnect_tasks EXCEPT ![i] = "done"]
  /\ UNCHANGED <<cfg, startCalls,
                 attrs, runPc, is_stopping, server_sockets, bound,
                 sockIdx, listening, poll_task, rpc_task, serverClosed,
                 shut_down, handlers, waitPc, waitCalls, stopCalls, stopBy,
                 stopError, closeOps, rpcCloses>>

\* ---- lines 249-257: start_rpc_server returns the RPC server's close
\* procedure, the result of self._rpc_task.
RpcServerStarted ==
  /\ UNCHANGED schedVars
  /\ rpc_task = "running"
  /\ rpc_task' = "done"
  /\ UNCHANGED <<cfg, startCalls,
                 attrs, runPc, is_stopping, server_sockets, bound,
                 sockIdx, listening, poll_task, reconnect_tasks,
                 serverClosed, shut_down, handlers, waitPc, waitCalls,
                 stopCalls, stopBy, stopError, closeOps, rpcCloses>>

\* ---- lines 305-306: wait_closed() is called and awaits self._task.
WaitClosedCall ==
  /\ UNCHANGED schedVars
  /\ runPc # "created"
  /\ waitPc \in {"idle", "returned"}
  /\ waitCalls < MaxWaitCalls
  /\ waitCalls' = waitCalls + 1
  /\ waitPc' = "await_task"
  /\ UNCHANGED <<cfg, startCalls,
                 attrs, runPc, is_stopping, server_sockets, bound,
                 sockIdx, listening, poll_task, rpc_task, reconnect_tasks,
                 serverClosed, shut_down, handlers, stopCalls, stopBy,
                 stopError, closeOps, rpcCloses>>

\* ---- lines 306-310: self._task is finished; without an RPC task
\* wait_closed() returns.
WaitTaskDone ==
  /\ UNCHANGED schedVars
  /\ waitPc = "await_task"
  /\ runPc = "done"
  /\ waitPc' = IF rpc_task # "none" THEN "await_rpc" ELSE "returned"
  /\ UNCHANGED <<cfg, startCalls,
                 attrs, runPc, is_stopping, server_sockets, bound,
                 sockIdx, listening, poll_task, rpc_task, reconnect_tasks,
                 serverClosed, shut_down, handlers, waitCalls, stopCalls,
                 stopBy, stopError, closeOps, rpcCloses>>

\* ---- line 308: self._rpc_task is finished; its result, the close
\* procedure, is invoked and awaited.
WaitRpcTaskDone ==
  /\ UNCHANGED schedVars
  /\ waitPc = "await_rpc"
  /\ rpc_task = "done"
  /\ rpcCloses' = rpcCloses + 1
  /\ waitPc' = "await_rpc_close"
  /\ UNCHANGED <<cfg, startCalls,
                 attrs, runPc, is_stopping, server_sockets, bound,
                 sockIdx, listening, poll_task, rpc_task, reconnect_tasks,
                 serverClosed, shut_down, handlers, waitCalls, stopCalls,
                 stopBy, stopError, closeOps>>

\* ---- lines 308-310: the close procedure returns, and so does
\* wait_closed().
WaitRpcClosed ==
  /\ UNCHANGED schedVars
  /\ waitPc = "await_rpc_close"
  /\ waitPc' = "returned"
  /\ UNCHANGED <<cfg, startCalls,
                 attrs, runPc, is_stopping, server_sockets, bound,
                 sockIdx, listening, poll_task, rpc_task, reconnect_tasks,
                 serverClosed, shut_down, handlers, waitCalls, stopCalls,
                 stopBy, stopError, closeOps, rpcCloses>>

\* The scheduler while the Service is looked at alone.
SchedIdle == SchedInit /\ target = MaxTarget

InitService == SchedIdle /\ \E c \in Configs : Constructed(c)

StopCaller == Stop("caller")
StopRpc == Stop("rpc")
StopSignal == Stop("signal")

NextService ==
  \/ Start
  \/ RunBegin
  \/ StartCallbackDone
  \/ BindDone
  \/ SocketClosedSeen
  \/ ServerClosedSeen
  \/ AwaitClosedCallbackDone
  \/ StopCaller
  \/ StopRpc
  \/ StopSignal
  \/ PollTaskCancelled
  \/ ReconnectTaskCancelled
  \/ RpcServerStarted
  \/ WaitClosedCall
  \/ WaitTaskDone
  \/ WaitRpcTaskDone
  \/ WaitRpcClosed

SpecService == InitService /\ [][NextService]_vars

\* The event loop runs every task that can take a step; nobody is bound to
\* call start(), stop() or wait_closed().
FairService ==
  /\ WF_vars(RunBegin)
  /\ WF_vars(StartCallbackDone)
  /\ WF_vars(BindDone)
  /\ WF_vars(SocketClosedSeen)
  /\ WF_vars(ServerClosedSeen)
  /\ WF_vars(AwaitClosedCallbackDone)
  /\ WF_vars(PollTaskCancelled)
  /\ WF_vars(ReconnectTaskCancelled)
  /\ WF_vars(RpcServerStarted)
  /\ WF_vars(WaitTaskDone)
  /\ WF_vars(WaitRpcTaskDone)
  /\ WF_vars(WaitRpcClosed)

FairSpecService == SpecService /\ FairService

--------------------------------------------------------------------------
(***************************************************************************)
(* Properties of the scheduler.                                            *)
(***************************************************************************)

\* C1: a non-feeler iteration never calls server.start_client with an
\* address whose network group is in `groups', the groups of the outbound
\* connections.
C1_NoDialIntoUsedGroup ==
  (dialed # None /\ ~is_feeler) =>
     get_group(The(dialed).addr) \notin groups

\* C2: an iteration calls server.start_client only for a candidate that it
\* accepted (got_peer): never after select_peer returned none, never for a
\* rejected candidate, never for an address of an earlier iteration.
C2_DialOnlyAccepted ==
  dialed # None => (got_peer /\ exit = "accepted")

\* C3: the disconnect_after_handshake flag of every dial is true exactly
\* when the iteration is a feeler or the number of needed peers is 0.
C3_FlagIffFeelerOrNoneNeeded ==
  dialed # None =>
     (The(dialed).flag <=> (is_feeler \/ The(dialed).needed = 0))

\* C4: a candidate tried less than 600 seconds before `now' is accepted only
\* once 30 candidates have been rejected in the iteration, and a candidate
\* tried 600 seconds or more before `now' is never sent back by the backoff
\* rule.
C4_BackoffUntilThirtyRejected ==
  /\ (exit = "accepted" /\ now - The(info).last_try < BackoffSeconds)
        => rejected >= BackoffTries
  /\ (pc = "select" /\ info # None)
        => now - The(info).last_try < BackoffSeconds

\* C5: an iteration that finds the address book empty runs the introducer
\* path only: it makes no call to resolve_tried_collisions,
\* select_tried_collision or select_peer and creates no start_client task
\* for a peer address.
C5_EmptyBookOnlyIntroducer ==
  intro # None =>
     /\ calls = NoCalls
     /\ dialed = None
     /\ pc \in {"intro_dial", "intro_sleep"}

\* An iteration found the address book empty, dialed the introducer and is
\* at its sleep.
C5_Witness ==
  /\ intro # None
  /\ pc = "intro_sleep"
  /\ The(intro).dialed

\* C6: an introducer iteration dials the introducer if and only if peers are
\* needed at that moment, and when its close loop has run the registry holds
\* no connection of type INTRODUCER.
C6_IntroducerDialedIffNeeded ==
  [][ /\ (pc = "top" /\ pc' \in {"intro_dial", "intro_sleep"})
           => ((pc' = "intro_dial") <=> (_num_needed_peers > 0))
      /\ (pc = "top" /\ pc' = "intro_sleep")
           => ~The(intro').dialed
      /\ (pc # "intro_sleep" /\ pc' = "intro_sleep")
           => intro_link' # "open"
    ]_vars

\* With the target satisfied, an iteration dialed nothing and closed the
\* connection to the introducer that was still in the registry.
C6_Witness ==
  /\ intro # None
  /\ pc = "intro_sleep"
  /\ The(intro).needed = 0
  /\ ~The(intro).dialed
  /\ The(intro).closed = 1
  /\ intro_link = "none"

\* The outbound count is below the target and the address book offers an
\* address of a network group that no outbound connection uses.
BelowTargetWithOffer ==
  /\ Cardinality(outbound) < target
  /\ size > 0
  /\ \E a \in Addrs : get_group(a) \notin {get_group(peer) : peer \in outbound}

\* A start_client task was created whose connection can last: its
\* disconnect_after_handshake flag is false.
LastingDial == dialed # None /\ ~The(dialed).flag

\* C13: from a state in which the outbound count is below the target and the
\* address book offers an address of an unused network group, for as long as
\* that stays so and the loop runs, the loop eventually creates a
\* start_client task that is not flagged disconnect_after_handshake.
C13_WorksTowardTarget ==
  BelowTargetWithOffer ~>
     (LastingDial \/ ~BelowTargetWithOffer \/ pc = "error")

\* Every dial made while peers are needed is flagged
\* disconnect_after_handshake (lines 143-144).
DialWhileNeededIsFlagged ==
  (dialed # None /\ The(dialed).needed > 0) => The(dialed).flag

\* C14: no iteration raises an error in the loop or ends it: the task of
\* connect_to_peers never stops on an exception.
C14_LoopNeverRaises == pc # "error"

\* C15: an iteration that reaches candidate selection has called
\* resolve_tried_collisions() once, before any select_tried_collision() or
\* select_peer(); a round of a feeler iteration that is handed a collision
\* entry takes it as the candidate and does not call select_peer(); a round
\* of a non-feeler iteration always calls select_peer().
C15_ResolveFirstCollisionPreferred ==
  /\ (pc \in {"select", "sleep", "error"}) => calls.resolve = 1
  /\ (calls.collision > 0 \/ calls.select > 0) => calls.resolve = 1
  /\ (is_feeler /\ round.collision) => (~round.select /\ info # None)
  /\ (is_feeler /\ calls.collision > 0 /\ ~round.collision) => round.select
  /\ ((~is_feeler) /\ calls.collision > 0) => round.select

\* A feeler iteration was handed a collision entry, took it and dialed it.
C15_Witness ==
  /\ is_feeler
  /\ calls.resolve = 1
  /\ round.collision
  /\ ~round.select
  /\ exit = "accepted"
  /\ dialed # None
  /\ The(dialed).addr = The(info).peer_info

C17_LoopNeverWaitsForDial ==
  (dialed # None \/ (intro # None /\ The(intro).dialed)) => pc # "intro_dial"

\* C18: every iteration sleeps the poll interval before the next one begins.
C18_EveryIterationSleeps == slept

--------------------------------------------------------------------------
(***************************************************************************)
(* Properties of the lifecycle supervisor.                                 *)
(***************************************************************************)

\* C7: stop() is idempotent: a call of stop() that follows an earlier call
\* changes no state, closes and cancels nothing, and raises no error.
C7_StopIdempotent ==
  [][ (is_stopping /\ stopCalls' = stopCalls + 1) =>
        /\ ~stopError'
        /\ UNCHANGED <<cfg, startCalls,
                       attrs, runPc, is_stopping, server_sockets, bound,
                       sockIdx, listening, poll_task, rpc_task,
                       reconnect_tasks, serverClosed, shut_down, handlers,
                       waitPc, waitCalls, stopBy, closeOps, rpcCloses>>
    ]_vars

\* stop() was called a second time, after a first call that closed a
\* listening socket and cancelled the tasks.
C7_Witness ==
  /\ stopCalls = 2
  /\ is_stopping
  /\ closeOps > 1
  /\ Len(server_sockets) > 0
  /\ listening = {}

\* C8: the first call of stop() on a started Service raises no error and
\* leaves every listening socket closed, the introducer-poll task and every
\* reconnect task cancelled, the server closed and the API's shut-down flag
\* set.
C8_FirstStopClosesEverything ==
  [][ (~is_stopping /\ is_stopping') =>
        /\ ~stopError'
        /\ listening' = {}
        /\ poll_task' # "running"
        /\ \A i \in 1..Len(reconnect_tasks') : reconnect_tasks'[i] # "running"
        /\ serverClosed'
        /\ shut_down'
    ]_vars

\* The supervisor is Closed: _run is finished and every socket it bound is
\* closed.
SupervisorClosed == runPc = "done" /\ listening = {}

\* C9: once stop() has been called on a started Service, every listening
\* socket is eventually closed and the supervisor eventually reaches Closed.
C9_StopLeadsToClosed == is_stopping ~> SupervisorClosed

C11_StartIdempotent ==
  [][ (startCalls >= 1 /\ startCalls' = startCalls + 1) =>
        UNCHANGED <<cfg, attrs, runPc, is_stopping, server_sockets, bound,
                    sockIdx, listening, poll_task, rpc_task, reconnect_tasks,
                    serverClosed, shut_down, handlers, waitPc, waitCalls,
                    stopCalls, stopBy, stopError, closeOps, rpcCloses>>
    ]_vars

\* start() was called a second time on a Service whose first run is waiting
\* for its listening sockets, with its tasks running.
C11_Witness ==
  /\ startCalls = 2
  /\ runPc = "wait_sock"
  /\ ~is_stopping
  /\ poll_task = "running"
  /\ rpc_task # "none"
  /\ Len(reconnect_tasks) > 0
  /\ listening # {}

\* C12: wait_closed() is idempotent: over the life of the Service the RPC
\* server's close procedure is invoked at most once, however often
\* wait_closed() is called.
C12_RpcClosedAtMostOnce == rpcCloses <= 1

==========================================================================
